---- MODULE Spec2Model ----
(***************************************************************************)
(* Model of the rss input plugin (flexget/plugins/input/rss.py):           *)
(* InputRSS.on_task_input with its helpers.  One run of on_task_input is   *)
(* walked through its phases (request, status check, parse, bozo check,    *)
(* ordering, the per-entry loop, saving the last spot); runs repeat        *)
(* against the persisted task.simple_persistence.                          *)
(*                                                                         *)
(* Text values are sequences of one-character strings, so that title+guid  *)
(* is a real concatenation and the title cleanup really removes            *)
(* characters.  "z" stands for the zero width space U+200B, "u" for any    *)
(* other non-ascii character; every other character is ascii.              *)
(***************************************************************************)
EXTENDS Integers, Sequences, FiniteSets, TLC

\* A missing key / a Python None.
None == <<"None">>
\* A value that is present but is not a string (a list, a struct_time, ...).
NotText == <<"NotText">>
\* published_parsed missing.
NoDate == 0

\* Python truthiness of a text value: present and not the empty string.
Truthy(v) == v # None /\ v # <<>>

\* dict.get(key, ''): the value, or the empty string when the key is missing.
GetOrEmpty(v) == IF v = None THEN <<>> ELSE v

------------------------------------------------------------------------------
(* Bounds of the explored inputs. *)

\* Longest entry list of a feed document.
MaxEntries == 2
\* Most enclosures of one rss entry.
MaxEnclosures == 2

------------------------------------------------------------------------------
(* Title cleanup, lines 341-346. *)

\* entry.title.encode('ascii', 'ignore'): drops every non-ascii character
\* (the zero width space is one of them).
encode_ascii(t) == SelectSeq(t, LAMBDA c : c \notin {"u", "z"})

\* entry.title.replace(u'\\u200B', u'')
remove_zwsp(t) == SelectSeq(t, LAMBDA c : c # "z")

cleanup_title(t, config) ==
    remove_zwsp(IF config.ascii THEN encode_ascii(t) ELSE t)

------------------------------------------------------------------------------
(* Entries of the parsed feed. *)

\* entry.get(field) for the fields the plugin reads by name.
Field(entry, f) ==
    CASE f = "title" -> entry.title
      [] f = "alt" -> entry.alt
      [] f = "guid" -> entry.guid
      [] f = "link" -> entry.link
      [] f = "author" -> entry.author
      [] OTHER -> None

\* config.get('title', 'title')
title_field(config) == config.title

\* Attribute read entry.title / rss.entries[0].title: the attribute set at
\* line 332/343/346 if the loop got that far, else the parser's title key;
\* AttributeError (raised = TRUE) when neither exists.
title_attr(entry) ==
    IF entry.title_attr # None THEN [raised |-> FALSE, v |-> entry.title_attr]
    ELSE IF entry.title # None THEN [raised |-> FALSE, v |-> entry.title]
    ELSE [raised |-> TRUE, v |-> None]

\* The comparison key of line 335 and the saved value of line 448:
\* title + entry.get('guid', '').
fingerprint(title, entry) == title \o GetOrEmpty(entry.guid)

------------------------------------------------------------------------------
(* Ordering, lines 308-312. *)

RECURSIVE insert_desc(_, _)
\* Insert e after every element whose date is >= its own: a stable
\* descending order, as list.sort(key=..., reverse=True) gives.
insert_desc(sorted, e) ==
    IF sorted = <<>> THEN <<e>>
    ELSE IF Head(sorted).pub >= e.pub THEN <<Head(sorted)>> \o insert_desc(Tail(sorted), e)
    ELSE <<e>> \o sorted

RECURSIVE sort_desc(_)
sort_desc(es) ==
    IF es = <<>> THEN <<>>
    ELSE insert_desc(sort_desc(SubSeq(es, 1, Len(es) - 1)), es[Len(es)])

\* An ordering step that leaves the entries as the parser gave them.
order_entries_as_parsed(es) == [raised |-> FALSE, entries |-> es]

\* Lines 309-312: [raised, entries].  The [] lookups raise KeyError on an
\* entry without published_parsed.
order_entries(es) ==
    IF es # <<>> /\ es[1].pub # NoDate
    THEN IF es[Len(es)].pub = NoDate
         THEN [raised |-> TRUE, entries |-> es]
         ELSE IF es[1].pub < es[Len(es)].pub
              THEN IF \E i \in 1..Len(es) : es[i].pub = NoDate
                   THEN [raised |-> TRUE, entries |-> es]
                   ELSE [raised |-> FALSE, entries |-> sort_desc(es)]
              ELSE [raised |-> FALSE, entries |-> es]
    ELSE [raised |-> FALSE, entries |-> es]

------------------------------------------------------------------------------
(* Building output entries, lines 150-167 and 348-388. *)

\* A fresh Entry(): no title, no url, no urls ('urls' missing is <<>>).
Entry ==
    [title |-> None, url |-> None, urls |-> <<>>, guid |-> None,
     author |-> None, rss_pubdate |-> NoDate]

\* add_enclosure_info: entry['url'] = enclosure['href'].  The optional size,
\* type and filename meta-data are not part of the model.
add_enclosure_info(ea, enclosure) == [ea EXCEPT !.url = enclosure.href]

\* The rss fields add_entry copies (the fields dict of lines 349-355, here
\* guid and author).
GrabFields == {"guid", "author"}

\* Line 365: a field that is present and is not a string.  Line 369 then
\* runs config['other_fields'].remove(rss_field), which raises: KeyError
\* without other_fields in the config, ValueError with it (the list holds
\* dicts, never the field name).
non_text_field(entry) == \E f \in GrabFields : Field(entry, f) = NotText

\* Lines 371-375: copy the field when it is present and not blank.
grab(entry, f) == IF Truthy(Field(entry, f)) THEN Field(entry, f) ELSE None

\* add_entry(ea), lines 360-388: [raised, ea]; ea is appended to entries by
\* the caller when raised is FALSE.
add_entry(ea, entry) ==
    [raised |-> non_text_field(entry),
     ea |-> [ea EXCEPT !.title = entry.title_attr,
                       !.guid = grab(entry, "guid"),
                       !.author = grab(entry, "author"),
                       !.rss_pubdate = entry.pub]]

------------------------------------------------------------------------------
(* Link resolution, lines 410-436. *)

RECURSIVE first_truthy(_, _)
\* for field in fields: if entry.get(field): return entry[field]
first_truthy(entry, fields) ==
    IF fields = <<>> THEN None
    ELSE IF Truthy(Field(entry, Head(fields))) THEN Field(entry, Head(fields))
    ELSE first_truthy(entry, Tail(fields))

Contains(seq, v) == \E i \in 1..Len(seq) : seq[i] = v

RECURSIVE link_list_with_repeats(_, _, _)
\* A list of urls that takes every non-empty value, also one it has.
link_list_with_repeats(entry, fields, urls) ==
    IF fields = <<>> THEN urls
    ELSE LET v == Field(entry, Head(fields)) IN
         link_list_with_repeats(entry, Tail(fields),
                                IF Truthy(v) THEN Append(urls, v) ELSE urls)

RECURSIVE link_list(_, _, _)
\* Lines 427-431: the urls of a link list, each value appended once.
link_list(entry, fields, urls) ==
    IF fields = <<>> THEN urls
    ELSE LET v == Field(entry, Head(fields)) IN
         link_list(entry, Tail(fields),
                   IF Truthy(v) /\ ~Contains(urls, v) THEN Append(urls, v) ELSE urls)

\* A resolution whose auto mode never looks at the enclosure.
resolve_link_fields_only(e, entry, config) ==
    IF config.link.kind # "list"
    THEN IF config.link.kind = "auto"
         THEN [e EXCEPT !.url = first_truthy(entry, <<"link", "guid">>)]
         ELSE [e EXCEPT !.url = first_truthy(entry, config.link.fields)]
    ELSE [e EXCEPT !.url = first_truthy(entry, config.link.fields),
                   !.urls = link_list(entry, config.link.fields, <<>>)]

\* Lines 410-431 on a fresh Entry e.
resolve_link(e, entry, config) ==
    IF config.link.kind # "list"
    THEN IF config.link.kind = "auto"
         THEN IF Len(entry.enclosures) = 1 /\ Truthy(entry.enclosures[1].href)
              THEN add_enclosure_info(e, entry.enclosures[1])
              ELSE [e EXCEPT !.url = first_truthy(entry, <<"link", "guid">>)]
         ELSE [e EXCEPT !.url = first_truthy(entry, config.link.fields)]
    ELSE [e EXCEPT !.url = first_truthy(entry, config.link.fields),
                   !.urls = link_list(entry, config.link.fields, <<>>)]

\* The list comprehension of line 436, evaluated against e['urls'] as it is
\* before extend() runs: the hrefs not in that list, in enclosure order.
new_hrefs(enclosures, urls) ==
    LET keep == SelectSeq(enclosures, LAMBDA enc : ~Contains(urls, enc.href))
    IN [i \in 1..Len(keep) |-> keep[i].href]

\* Lines 433-436: [raised, e].  [e['url']] is evaluated whether or not
\* 'urls' exists (KeyError without a url); enc.href raises AttributeError
\* on an enclosure without href.
group_links(e, entry) ==
    IF e.url = None THEN [raised |-> TRUE, e |-> e]
    ELSE LET urls == IF e.urls = <<>> THEN <<e.url>> ELSE e.urls IN
         IF \E i \in 1..Len(entry.enclosures) : entry.enclosures[i].href = None
         THEN [raised |-> TRUE, e |-> e]
         ELSE [raised |-> FALSE,
               e |-> [e EXCEPT !.urls = urls \o new_hrefs(entry.enclosures, urls)]]

------------------------------------------------------------------------------
(* One pass of the loop body, lines 321-443. *)

\* A fan-out that does not look for the href key.
enclosure_entries_unchecked(entry) ==
    [i \in 1..Len(entry.enclosures) |->
        add_entry(add_enclosure_info(Entry, entry.enclosures[i]), entry).ea]

\* Lines 396-403: one Entry per enclosure that has an href key, in order.
enclosure_entries(entry) ==
    LET with_href == SelectSeq(entry.enclosures, LAMBDA enc : enc.href # None)
    IN [i \in 1..Len(with_href) |->
            add_entry(add_enclosure_info(Entry, with_href[i]), entry).ea]

\* Lines 341-443, for an entry that has a title and is not the last spot.
\* kind: "added" (items appended, possibly none), "ignored", "raised".
create_entries(entry, config) ==
    IF Len(entry.enclosures) > 1 /\ ~config.group_links
    THEN IF enclosure_entries(entry) # <<>> /\ add_entry(Entry, entry).raised
         THEN [kind |-> "raised", entry |-> entry, items |-> <<>>]
         ELSE [kind |-> "added", entry |-> entry, items |-> enclosure_entries(entry)]
    ELSE LET linked == resolve_link(Entry, entry, config)
             grouped == IF config.group_links
                        THEN group_links(linked, entry)
                        ELSE [raised |-> FALSE, e |-> linked]
         IN IF grouped.raised
            THEN [kind |-> "raised", entry |-> entry, items |-> <<>>]
            ELSE IF ~Truthy(grouped.e.url)
            THEN [kind |-> "ignored", entry |-> entry, items |-> <<>>]
            ELSE IF add_entry(grouped.e, entry).raised
            THEN [kind |-> "raised", entry |-> entry, items |-> <<>>]
            ELSE [kind |-> "added", entry |-> entry,
                  items |-> <<add_entry(grouped.e, entry).ea>>]

\* Line 335: the entry is the last spot saved by an earlier run.
is_last_entry(entry, config, last_entry_id) ==
    last_entry_id = fingerprint(Field(entry, title_field(config)), entry)

\* The whole loop body for one rss entry.  kind: "ignored" (no title, or no
\* url), "break" (the last spot was met), "added", "raised".
process_entry(entry, config, last_entry_id) ==
    IF ~Truthy(Field(entry, title_field(config)))
    THEN [kind |-> "ignored", entry |-> entry, items |-> <<>>]
    ELSE IF is_last_entry(entry, config, last_entry_id)
    THEN [kind |-> "break",
          entry |-> [entry EXCEPT !.title_attr = Field(entry, title_field(config))],
          items |-> <<>>]
    ELSE create_entries(
            [entry EXCEPT !.title_attr =
                cleanup_title(Field(entry, title_field(config)), config)],
            config)

------------------------------------------------------------------------------
(* The bozo check, lines 249-302. *)

\* What the check decides for the parser's bozo_exception ex:
\*   "go"      the loop runs on rss.entries,
\*   "return"  lines 297-300, the run returns nothing,
\*   "invalid" process_invalid_content and PluginError (lines 269-272, 286-288),
\*   "reraise" line 282, the exception is raised again.
\* "none" is a parse without bozo_exception, "nobit" a result without the
\* bozo key (line 302).
check_bozo(ex, has_entries) ==
    CASE ex \in {"none", "nobit"} -> "go"
      [] ex \in {"NonXMLContentType", "CharacterEncodingOverride"} -> "go"
      [] ex = "UnicodeEncodeError" -> IF has_entries THEN "go" ELSE "return"
      [] ex = "SAXParseException" -> IF has_entries THEN "go" ELSE "invalid"
      [] ex \in {"BadStatusLine", "IOError"} -> "reraise"
      [] OTHER -> IF has_entries THEN "return" ELSE "invalid"

------------------------------------------------------------------------------
(* State. *)

VARIABLES
    task_inputs,         \* the rss inputs of the task: a config and what its url serves
    config,              \* the plugin config after build_config
    upstream,            \* what the url serves: validators, body, parse result
    simple_persistence,  \* task.simple_persistence: by url hash, the _etag,
                         \* _modified and _last_entry stored under it
    manager,             \* the (config_modified, nocache) pairs runs are made with
    task,                \* task.config_modified, options.nocache, task.no_entries_ok
    pc,                  \* position in on_task_input
    headers,             \* request headers built at lines 182-194
    status,              \* response.status_code (0: no response)
    rss,                 \* feedparser result: bozo_exception and entries
    last_entry_id,       \* line 306/313
    entries,             \* the entries created so far (line 316)
    ignored,             \* line 320
    index,               \* number of rss.entries the loop has taken
    received,            \* files written by process_invalid_content in this run
    result,              \* how the run ended
    started,             \* simple_persistence as it was when the run began
    previous             \* how the run before this one ended

vars == <<task_inputs, config, upstream, simple_persistence, manager, task, pc, headers, status, rss,
          last_entry_id, entries, ignored, index, received, result, started,
          previous>>

\* hash(config['url']) of line 177.  hash maps the unbounded set of urls
\* into the machine integers, so two urls can have one hash: of the urls
\* used here "http3" has the hash of "http", the others have their own.
UrlHash(url) ==
    CASE url \in {"http", "http3"} -> 1
      [] url = "http2" -> 2
      [] OTHER -> 3

\* The urls a config can name ("file" is a path, read at line 239).
FeedUrls == {"http", "http2", "http3", "file"}

UrlHashes == {UrlHash(url) : url \in FeedUrls}

\* Line 177: url_hash of the run in progress.
url_hash == UrlHash(config.url)

\* A store that puts the values under every hash.
set_persisted_unkeyed(persistence, hash, stored) ==
    [h \in DOMAIN persistence |-> stored]

\* task.simple_persistence['%s_...' % url_hash] = ...: stored is what the
\* keys of that hash hold afterwards.
set_persisted(persistence, hash, stored) ==
    [persistence EXCEPT ![hash] = stored]

\* Line 181.
all_entries == config.all_entries \/ task.config_modified \/ task.nocache

Running == [kind |-> "running", at |-> "none", warned |-> FALSE]

\* The run ends: return / raise.  kind is "entries" (line 454 and the 304
\* return of line 216), "nothing" (the bare returns of lines 243 and 300),
\* "PluginError", or "exception" (any other exception leaving the method).
Ends(kind, warned) ==
    /\ pc' = "done"
    /\ result' = [kind |-> kind, at |-> pc, warned |-> warned]

------------------------------------------------------------------------------
(* on_task_input, lines 171-454. *)

\* Headers built from the persisted validators whatever the mode is.
request_headers_unconditional(bypass, persistence) ==
    [If_None_Match |->
        IF Truthy(persistence.etag) THEN persistence.etag ELSE None,
     If_Modified_Since |->
        IF Truthy(persistence.modified) THEN persistence.modified ELSE None]

\* Lines 182-194: the request headers; bypass is all_entries of line 181.
\* A header that is not sent is None.
request_headers(bypass, persistence) ==
    IF ~bypass
    THEN [If_None_Match |->
             IF Truthy(persistence.etag) THEN persistence.etag ELSE None,
          If_Modified_Since |->
             IF Truthy(persistence.modified) THEN persistence.modified ELSE None]
    ELSE [If_None_Match |-> None, If_Modified_Since |-> None]

\* Lines 172-194: a run begins and builds the conditional request headers.
Start ==
    /\ pc \in {"idle", "done"}
    /\ \E input \in task_inputs, options \in manager :
          /\ config' = input.config
          /\ upstream' = input.upstream
          /\ task' = [config_modified |-> options.config_modified,
                      nocache |-> options.nocache, no_entries_ok |-> FALSE]
          /\ headers' =
                request_headers(
                    input.config.all_entries \/ options.config_modified
                        \/ options.nocache,
                    simple_persistence[UrlHash(input.config.url)])
    /\ pc' = "get"
    /\ status' = 0
    /\ rss' = [ex |-> "none", entries |-> <<>>]
    /\ last_entry_id' = <<>>
    /\ entries' = <<>>
    /\ ignored' = 0
    /\ index' = 0
    /\ received' = 0
    /\ result' = Running
    /\ started' = simple_persistence
    /\ previous' = [kind |-> result.kind,
                    incremental |-> pc = "done" /\ ~all_entries]
    /\ UNCHANGED <<task_inputs, manager, simple_persistence>>

\* The server's answer to a conditional request: 304 when a validator sent
\* is the current one, else 200.
served_status ==
    IF \/ (headers.If_None_Match # None /\ headers.If_None_Match = upstream.etag)
       \/ (headers.If_Modified_Since # None
           /\ headers.If_Modified_Since = upstream.modified)
    THEN 304 ELSE 200

\* A response: its status_code, and whether its headers hold the
\* www-authenticate key that line 219 reads.
Response(code, www_authenticate) ==
    [status_code |-> code, www_authenticate |-> www_authenticate]

\* What task.requests.get can come back with: the served status, or one of
\* the failures this upstream has (an error status; 0 is a RequestException).
\* A 401 comes with or without the www-authenticate header.
Responses ==
    {Response(served_status, FALSE)}
    \cup {Response(code, TRUE) : code \in upstream.errors}
    \cup {Response(code, FALSE) : code \in upstream.errors \cap {401}}

\* Lines 228-236: the validators of a 200 response are stored right away.
update_validators(persistence) ==
    IF ~config.all_entries
    THEN [persistence EXCEPT
            !.etag = IF Truthy(upstream.etag) THEN upstream.etag ELSE @,
            !.modified = IF Truthy(upstream.modified) THEN upstream.modified ELSE @]
    ELSE persistence

\* A status check that lets 304 fall through to the 200 path.
not_modified_unchecked ==
    /\ simple_persistence' =
          set_persisted(simple_persistence, url_hash,
                        update_validators(simple_persistence[url_hash]))
    /\ pc' = "parse"
    /\ UNCHANGED <<task, result>>

\* Lines 212-216: the feed has not changed since the last run.
not_modified ==
    /\ task' = [task EXCEPT !.no_entries_ok = TRUE]
    /\ Ends("entries", FALSE)
    /\ UNCHANGED simple_persistence

\* Lines 196-239: get the feed content and check the status.
Get ==
    /\ pc = "get"
    /\ IF config.url = "file"
       THEN /\ pc' = "parse"
            /\ UNCHANGED <<status, task, simple_persistence, result>>
       ELSE \E response \in Responses :
            /\ status' = response.status_code
            /\ CASE response.status_code = 0 ->
                      /\ Ends("PluginError", FALSE)
                      /\ UNCHANGED <<task, simple_persistence>>
                 [] response.status_code = 304 -> not_modified
                 [] response.status_code = 200 ->
                      /\ simple_persistence' =
                            set_persisted(simple_persistence, url_hash,
                                update_validators(simple_persistence[url_hash]))
                      /\ pc' = "parse"
                      /\ UNCHANGED <<task, result>>
                 [] response.status_code = 401 ->
                      \* Lines 217-219: the message is built from
                      \* response.headers['www-authenticate'], a KeyError
                      \* when the response has no such header.
                      /\ Ends(IF response.www_authenticate
                              THEN "PluginError" ELSE "exception", FALSE)
                      /\ UNCHANGED <<task, simple_persistence>>
                 [] OTHER ->
                      /\ Ends("PluginError", FALSE)
                      /\ UNCHANGED <<task, simple_persistence>>
    /\ UNCHANGED <<task_inputs, config, upstream, manager, headers, rss, last_entry_id, entries,
                   ignored, index, received, started, previous>>

\* Lines 241-247: no content, or feedparser.parse.
Parse ==
    /\ pc = "parse"
    /\ IF upstream.content = "empty"
       THEN Ends("nothing", FALSE) /\ UNCHANGED rss
       ELSE IF upstream.ex = "LookupError"
       THEN Ends("PluginError", FALSE) /\ UNCHANGED rss
       ELSE /\ rss' = [ex |-> upstream.ex, entries |-> upstream.entries]
            /\ pc' = "bozo"
            /\ UNCHANGED result
    /\ UNCHANGED <<task_inputs, config, upstream, manager, simple_persistence, task, headers, status,
                   last_entry_id, entries, ignored, index, received, started,
                   previous>>

\* Lines 249-302: the bozo check.
Bozo ==
    /\ pc = "bozo"
    /\ LET verdict == check_bozo(rss.ex, rss.entries # <<>>) IN
       CASE verdict = "go" ->
                 pc' = "order" /\ UNCHANGED <<received, result>>
         [] verdict = "return" ->
                 Ends("nothing", FALSE) /\ UNCHANGED received
         [] verdict = "invalid" ->
                 received' = received + 1 /\ Ends("PluginError", FALSE)
         [] OTHER ->
                 Ends("exception", FALSE) /\ UNCHANGED received
    /\ UNCHANGED <<task_inputs, config, upstream, manager, simple_persistence, task, headers, status,
                   rss, last_entry_id, entries, ignored, index, started,
                   previous>>

\* Lines 306-313: order the entries and read the last spot.
Order ==
    /\ pc = "order"
    /\ IF ~all_entries
       THEN IF order_entries(rss.entries).raised
            THEN Ends("exception", FALSE) /\ UNCHANGED <<rss, last_entry_id>>
            ELSE /\ rss' = [rss EXCEPT !.entries = order_entries(rss.entries).entries]
                 /\ last_entry_id' = simple_persistence[url_hash].last_entry
                 /\ pc' = IF rss.entries = <<>> THEN "save" ELSE "loop"
                 /\ UNCHANGED result
       ELSE /\ pc' = IF rss.entries = <<>> THEN "save" ELSE "loop"
            /\ UNCHANGED <<rss, last_entry_id, result>>
    /\ UNCHANGED <<task_inputs, config, upstream, manager, simple_persistence, task, headers, status,
                   entries, ignored, index, received, started, previous>>

\* Lines 321-443: the loop body for the next rss entry.
Loop ==
    /\ pc = "loop"
    /\ index < Len(rss.entries)
    /\ LET done == process_entry(rss.entries[index + 1], config, last_entry_id) IN
       /\ rss' = [rss EXCEPT !.entries[index + 1] = done.entry]
       /\ entries' = entries \o done.items
       /\ ignored' = IF done.kind = "ignored" THEN ignored + 1 ELSE ignored
       /\ task' = [task EXCEPT !.no_entries_ok = @ \/ done.kind = "break"]
       /\ CASE done.kind = "raised" ->
                 Ends("exception", FALSE) /\ UNCHANGED index
            [] done.kind = "break" ->
                 pc' = "save" /\ UNCHANGED <<index, result>>
            [] OTHER ->
                 /\ index' = index + 1
                 /\ pc' = IF index + 1 = Len(rss.entries) THEN "save" ELSE "loop"
                 /\ UNCHANGED result
    /\ UNCHANGED <<task_inputs, config, upstream, manager, simple_persistence, headers, status,
                   last_entry_id, received, started, previous>>

\* Lines 445-454: save the last spot, warn about skipped entries, return.
Save ==
    /\ pc = "save"
    /\ IF rss.entries # <<>>
       THEN IF title_attr(rss.entries[1]).raised
            THEN Ends("exception", FALSE) /\ UNCHANGED simple_persistence
            ELSE /\ simple_persistence' =
                       set_persisted(simple_persistence, url_hash,
                           [simple_persistence[url_hash] EXCEPT !.last_entry =
                               fingerprint(title_attr(rss.entries[1]).v,
                                           rss.entries[1])])
                 /\ Ends("entries", ignored > 0 /\ ~config.silent)
       ELSE Ends("entries", ignored > 0 /\ ~config.silent)
            /\ UNCHANGED simple_persistence
    /\ UNCHANGED <<task_inputs, config, upstream, manager, task, headers, status, rss, last_entry_id,
                   entries, ignored, index, received, started, previous>>

Next == Start \/ Get \/ Parse \/ Bozo \/ Order \/ Loop \/ Save

------------------------------------------------------------------------------
(* Inputs. *)

\* build_config, lines 105-125: the defaults of a config that names a url.
build_config ==
    [url |-> "http", all_entries |-> FALSE, group_links |-> FALSE,
     ascii |-> FALSE, link |-> [kind |-> "auto", fields |-> <<>>],
     title |-> "title", silent |-> FALSE]

\* An entry as feedparser returns it (no title attribute set yet).
RssEntry(title, guid, link, pub, enclosures) ==
    [title |-> title, alt |-> None, guid |-> guid, link |-> link,
     author |-> None, pub |-> pub, enclosures |-> enclosures,
     title_attr |-> None]

SeqsUpTo(S, n) == UNION {[1..k -> S] : k \in 0..n}

\* Nothing persisted yet.
NoPersistence == [etag |-> None, modified |-> None, last_entry |-> None]

AllOptions == [config_modified : BOOLEAN, nocache : BOOLEAN]
PlainOptions == {[config_modified |-> FALSE, nocache |-> FALSE]}

BozoKinds ==
    {"none", "nobit", "NonXMLContentType", "CharacterEncodingOverride",
     "UnicodeEncodeError", "SAXParseException", "BadStatusLine", "IOError",
     "other", "LookupError"}

\* No run has been made yet.
BeforeFirstRun ==
    /\ task = [config_modified |-> FALSE, nocache |-> FALSE, no_entries_ok |-> FALSE]
    /\ pc = "idle"
    /\ headers = [If_None_Match |-> None, If_Modified_Since |-> None]
    /\ status = 0
    /\ rss = [ex |-> "none", entries |-> <<>>]
    /\ last_entry_id = <<>>
    /\ entries = <<>>
    /\ ignored = 0
    /\ index = 0
    /\ received = 0
    /\ result = [kind |-> "none", at |-> "none", warned |-> FALSE]
    /\ started = simple_persistence
    /\ previous = [kind |-> "none", incremental |-> FALSE]

\* A task with one rss input.
InitWith(Configs, Upstreams, Persistences, Managers) ==
    /\ config \in Configs
    /\ upstream \in Upstreams
    /\ task_inputs = {[config |-> config, upstream |-> upstream]}
    /\ \E persisted \in Persistences :
          simple_persistence =
              [h \in UrlHashes |->
                  IF h = UrlHash(config.url) THEN persisted ELSE NoPersistence]
    /\ manager \in Managers
    /\ BeforeFirstRun

(* Spec: fetching, status codes, parse faults and the persisted validators,
   over feeds of plain entries. *)

PlainEntry == RssEntry(<<"a">>, <<"g">>, <<"l">>, 1, <<>>)

FetchConfigs ==
    {[build_config EXCEPT !.all_entries = a, !.url = u] :
        a \in BOOLEAN, u \in {"http", "file"}}

FetchUpstreams ==
    {[etag |-> e, modified |-> m, errors |-> {401, 404, 500, 503, 0},
      content |-> "feed", ex |-> x, entries |-> es] :
        e \in {None, <<"e">>}, m \in {None, <<"m">>}, x \in BozoKinds,
        es \in SeqsUpTo({PlainEntry}, MaxEntries)}
    \cup
    {[etag |-> e, modified |-> m, errors |-> {401, 404, 500, 503, 0},
      content |-> "empty", ex |-> "none", entries |-> <<>>] :
        e \in {None, <<"e">>}, m \in {None, <<"m">>}}

FetchPersistences ==
    {NoPersistence, [NoPersistence EXCEPT !.etag = <<"x">>]}

Init == InitWith(FetchConfigs, FetchUpstreams, FetchPersistences, {AllOptions})

Spec == Init /\ [][Next]_vars

(* SpecScan: ordering, the last spot and the loop, over feeds whose entries
   differ in title, guid, link and date; the server answers every request. *)

ScanEntries ==
    {RssEntry(<<"a">>, <<"g">>, <<"l">>, 1, <<>>),
     RssEntry(<<"b">>, None, <<"l">>, 2, <<>>),
     RssEntry(<<"a", "z">>, None, <<"l">>, 2, <<>>),
     RssEntry(None, <<"g">>, <<"l">>, 1, <<>>),
     RssEntry(<<"b">>, None, None, 1, <<>>),
     RssEntry(<<"a">>, <<"g">>, <<"l">>, NoDate, <<>>),
     [RssEntry(<<"b">>, <<"g">>, <<"l">>, 2, <<>>) EXCEPT !.author = NotText]}

ScanConfigs ==
    {[build_config EXCEPT !.all_entries = a, !.group_links = g] :
        a \in BOOLEAN, g \in BOOLEAN}

ScanUpstreams ==
    {[etag |-> e, modified |-> None, errors |-> {}, content |-> "feed",
      ex |-> "none", entries |-> es] :
        e \in {None, <<"e">>}, es \in SeqsUpTo(ScanEntries, MaxEntries)}

ScanPersistences ==
    {[NoPersistence EXCEPT !.last_entry = l] : l \in {None, <<"a", "g">>, <<"b">>}}

\* Every run of a behaviour is made the same way: plainly, after a config
\* change, or with the nocache option.
ScanManagers ==
    {PlainOptions,
     {[config_modified |-> TRUE, nocache |-> FALSE]},
     {[config_modified |-> FALSE, nocache |-> TRUE]}}

InitScan == InitWith(ScanConfigs, ScanUpstreams, ScanPersistences, ScanManagers)

SpecScan == InitScan /\ [][Next]_vars

(* SpecResolve: what one rss entry becomes, over every shape of its title,
   links and enclosures and every link setting; each run takes all entries. *)

Hrefs == {None, <<>>, <<"h">>, <<"l">>}

ResolveEntries ==
    {[RssEntry(t, g, l, 1, encs) EXCEPT !.author = w] :
        t \in {None, <<"a">>, <<"z">>, <<"u">>}, g \in {None, <<"g">>, <<"l">>},
        l \in {None, <<"l">>}, w \in {None, <<"w">>, NotText},
        encs \in SeqsUpTo([href : Hrefs], MaxEnclosures)}

Links ==
    {[kind |-> "auto", fields |-> <<>>], [kind |-> "field", fields |-> <<"guid">>],
     [kind |-> "list", fields |-> <<"link", "guid">>]}

ResolveConfigs ==
    {[build_config EXCEPT !.all_entries = TRUE, !.group_links = g, !.ascii = a,
                          !.link = k] :
        g \in BOOLEAN, a \in BOOLEAN, k \in Links}

ResolveUpstreams ==
    {[etag |-> None, modified |-> None, errors |-> {}, content |-> "feed",
      ex |-> "none", entries |-> <<e>>] : e \in ResolveEntries}

InitResolve ==
    InitWith(ResolveConfigs, ResolveUpstreams, {NoPersistence}, {PlainOptions})

SpecResolve == InitResolve /\ [][Next]_vars

(* SpecTwo: a task with two rss inputs that name different urls, run one
   after the other in any order; the second url has its own hash or the
   hash of the first. *)

TwoUpstream(etag, entry) ==
    [etag |-> etag, modified |-> None, errors |-> {}, content |-> "feed",
     ex |-> "none", entries |-> <<entry>>]

FirstInputs ==
    {[config |-> build_config, upstream |-> TwoUpstream(e, PlainEntry)] :
        e \in {None, <<"e">>}}

SecondInputs ==
    {[config |-> [build_config EXCEPT !.url = u],
      upstream |-> TwoUpstream(e, RssEntry(<<"b">>, None, <<"l">>, 2, <<>>))] :
        u \in {"http2", "http3"}, e \in {None, <<"f">>}}

InitTwo ==
    /\ \E first \in FirstInputs, second \in SecondInputs :
          /\ task_inputs = {first, second}
          /\ config = first.config
          /\ upstream = first.upstream
    /\ simple_persistence = [h \in UrlHashes |-> NoPersistence]
    /\ manager = PlainOptions
    /\ BeforeFirstRun

SpecTwo == InitTwo /\ [][Next]_vars

(* SpecRepeat: one incremental source whose document never changes, run
   again and again without options; the server answers every request. *)

RepeatUpstreams ==
    {[document EXCEPT !.errors = {}] : document \in FetchUpstreams}

InitRepeat ==
    InitWith({build_config}, RepeatUpstreams, {NoPersistence}, {PlainOptions})

\* A handler that has started runs to its end, and the task is run again
\* after every run.
SpecRepeat == InitRepeat /\ [][Next]_vars /\ WF_vars(Next)

------------------------------------------------------------------------------
(* Properties. *)

\* C4: a 304 response ends the run at once, before any parsing: it returns
\* an empty entry list, sets task.no_entries_ok, and leaves the persisted
\* etag, modified and last_entry as they were when the run began.
C4_NotModifiedReturnsEmpty ==
    status = 304 =>
        /\ pc = "done"
        /\ result.kind = "entries"
        /\ result.at = "get"
        /\ entries = <<>>
        /\ task.no_entries_ok
        /\ rss.entries = <<>>
        /\ index = 0
        /\ simple_persistence = started

\* A run answered 304 to the etag an earlier run of the same behaviour stored.
C4_Witness ==
    /\ status = 304
    /\ pc = "done"
    /\ started[url_hash].etag = <<"e">>
    /\ previous.kind = "entries"

\* The entries a finished run hands back: the list of line 454 (or the empty
\* list of line 216); nothing when it returned nothing or raised.
Emitted == IF pc = "done" /\ result.kind = "entries" THEN entries ELSE <<>>

\* The run is in incremental mode (line 181 is false).
Incremental == ~all_entries

\* C1: idempotence across runs.  When an incremental run has completed and
\* the next incremental run meets the same upstream document with the
\* persistence the first one left, the second run emits no entry.
C1_SecondRunEmitsNothing ==
    (/\ pc = "done"
     /\ Incremental
     /\ previous.kind = "entries"
     /\ previous.incremental) => Emitted = <<>>

\* C2: the persisted etag, modified and last_entry are written only when the
\* run saves its last spot, after fetch, parse and the loop; until then, and
\* in a run that ends earlier, they are what they were when the run began.
C2_PersistenceWrittenOnlyWhenSaving ==
    /\ pc \in {"get", "parse", "bozo", "order", "loop", "save"}
          => simple_persistence = started
    /\ (pc = "done" /\ result.at # "save") => simple_persistence = started

\* C5: a SAXParseException or an unclassified bozo exception with no entries
\* writes the received content once and fails the run; with entries it
\* writes nothing and the run returns its entries.
C5_FatalFaultDumpsOnce ==
    (/\ pc = "done"
     /\ result.at \notin {"get", "parse"}
     /\ rss.ex \in {"SAXParseException", "other"}) =>
        IF rss.entries = <<>>
        THEN received = 1 /\ result.kind = "PluginError"
        ELSE received = 0 /\ result.kind = "entries"

\* C6: a run is aborted only while fetching or while classifying the parse
\* result; once the entries are being ordered and resolved, the run returns
\* its entry list whatever the entries look like.
C6_OnlyFetchOrParseFaultsAbort ==
    (pc = "done" /\ result.kind \in {"PluginError", "exception"})
        => result.at \in {"get", "parse", "bozo"}

\* C3: every entry a run returns has a non-empty title and a non-empty url
\* (or a non-empty urls list).
C3_EmittedEntriesHaveTitleAndUrl ==
    \A i \in 1..Len(Emitted) :
        /\ Truthy(Emitted[i].title)
        /\ Truthy(Emitted[i].url) \/ Emitted[i].urls # <<>>

\* The positions of rss.entries whose title + guid is the persisted last spot.
LastSpots ==
    {i \in 1..Len(rss.entries) :
        /\ Truthy(Field(rss.entries[i], title_field(config)))
        /\ fingerprint(Field(rss.entries[i], title_field(config)), rss.entries[i])
              = started[url_hash].last_entry}

\* The first of them.
Horizon == CHOOSE k \in LastSpots : \A j \in LastSpots : k <= j

\* An entry that has a title and, with link auto and no enclosure, a url.
Resolvable(entry) ==
    /\ Truthy(Field(entry, title_field(config)))
    /\ Truthy(entry.link) \/ Truthy(entry.guid)

\* The urls of the resolvable entries among the first n of rss.entries.
RECURSIVE ResolvableUrls(_)
ResolvableUrls(n) ==
    IF n = 0 THEN <<>>
    ELSE ResolvableUrls(n - 1) \o
         (IF Resolvable(rss.entries[n])
          THEN <<IF Truthy(rss.entries[n].link) THEN rss.entries[n].link
                 ELSE rss.entries[n].guid>>
          ELSE <<>>)

\* The loop has been entered and the run is over.
ScanOver == pc = "done" /\ result.at \in {"loop", "save"}

\* C7: in an incremental run whose entry at position k is the first one that
\* is the persisted last spot, the run returns exactly the resolvable entries
\* before k, takes no entry from k on, and sets task.no_entries_ok.
C7_ScanStopsAtLastSpot ==
    (ScanOver /\ Incremental /\ LastSpots # {}) =>
        /\ result.kind = "entries"
        /\ index = Horizon - 1
        /\ task.no_entries_ok
        /\ [i \in 1..Len(entries) |-> entries[i].url] = ResolvableUrls(Horizon - 1)

\* The parsed entries are oldest first: the first one is older than the last.
OutOfOrder(es) ==
    /\ es # <<>>
    /\ es[1].pub # NoDate
    /\ es[Len(es)].pub # NoDate
    /\ es[1].pub < es[Len(es)].pub

Descending(dates) ==
    \A i \in 1..Len(dates) : \A j \in i..Len(dates) : dates[i] >= dates[j]

\* The entry as parsed (without the title attribute the loop sets).
AsParsed(entry) == [entry EXCEPT !.title_attr = None]

Count(es, e) == Cardinality({i \in 1..Len(es) : AsParsed(es[i]) = e})

\* es holds the same entries as upstream.entries, each as often.
SameEntries(es) ==
    /\ Len(es) = Len(upstream.entries)
    /\ \A i \in 1..Len(es) :
          Count(es, AsParsed(es[i])) = Count(upstream.entries, AsParsed(es[i]))

\* The loop is running or has run.
Scanning == pc \in {"loop", "save"} \/ ScanOver

TheEntry == upstream.entries[1]

\* The entry goes down the branch of lines 393-405.
FansOut ==
    /\ Len(upstream.entries) = 1
    /\ Truthy(Field(TheEntry, title_field(config)))
    /\ Len(TheEntry.enclosures) > 1
    /\ ~config.group_links

\* The hrefs of the enclosures that have an href key, in enclosure order.
HrefsPresent ==
    LET with_href == SelectSeq(TheEntry.enclosures, LAMBDA enc : enc.href # None)
    IN [i \in 1..Len(with_href) |-> with_href[i].href]

Urls(es) == [i \in 1..Len(es) |-> es[i].url]

Distinct(seq) == \A i \in 1..Len(seq) : \A j \in 1..Len(seq) : seq[i] = seq[j] => i = j

Grouped ==
    /\ Len(upstream.entries) = 1
    /\ Truthy(Field(TheEntry, title_field(config)))
    /\ Len(TheEntry.enclosures) > 1
    /\ \A i \in 1..Len(TheEntry.enclosures) : TheEntry.enclosures[i].href # None
    /\ config.group_links

RECURSIVE WithoutRepeats(_)
\* seq with every later repeat of a value dropped.
WithoutRepeats(seq) ==
    IF seq = <<>> THEN <<>>
    ELSE LET front == WithoutRepeats(SubSeq(seq, 1, Len(seq) - 1)) IN
         IF Contains(front, seq[Len(seq)]) THEN front ELSE Append(front, seq[Len(seq)])

\* C10, for the runs that return their entries and a link option naming one
\* source: an entry with several enclosures and group_links on yields one
\* entry; its urls are the primary link followed by the enclosure hrefs in
\* enclosure order, no value twice.
C10_GroupedUrlsWithoutRepeats ==
    (ScanOver /\ Grouped /\ result.kind = "entries" /\ config.link.kind # "list") =>
        /\ Len(entries) = 1
        /\ entries[1].urls =
              WithoutRepeats(<<entries[1].url>> \o
                  [i \in 1..Len(TheEntry.enclosures) |-> TheEntry.enclosures[i].href])

\* The single entry has a title, goes down lines 407-443 (not the fan-out),
\* and the link setting finds no url for it.
NoUrlResolved ==
    /\ Len(upstream.entries) = 1
    /\ Truthy(Field(TheEntry, title_field(config)))
    /\ ~(Len(TheEntry.enclosures) > 1 /\ ~config.group_links)
    /\ ~Truthy(resolve_link(Entry, TheEntry, config).url)

\* C11: an entry for which no url was resolved, under any link setting and
\* with group_links on or off, is dropped and counted as ignored; the run
\* raises nothing, goes on past it and returns its entries.
C11_EntryWithoutUrlIsIgnored ==
    (ScanOver /\ NoUrlResolved) =>
        /\ result.kind = "entries"
        /\ index = 1
        /\ ignored = 1
        /\ entries = <<>>

\* The single entry has a title, a url under the link setting, at most one
\* enclosure, no grouping, and an author that is present but is not a string.
NonTextAuthor ==
    /\ Len(upstream.entries) = 1
    /\ Truthy(Field(TheEntry, title_field(config)))
    /\ Len(TheEntry.enclosures) <= 1
    /\ ~config.group_links
    /\ Truthy(resolve_link(Entry, TheEntry, config).url)
    /\ TheEntry.author = NotText

\* C12: when a field the plugin copies is present on an rss entry but is not
\* a string, the run goes on and still returns the entry, without that
\* field.
C12_NonTextFieldIsLeftOut ==
    (ScanOver /\ NonTextAuthor) =>
        /\ result.kind = "entries"
        /\ Len(entries) = 1
        /\ entries[1].url = resolve_link(Entry, TheEntry, config).url
        /\ entries[1].author = None

\* C13: a response with a status other than 200 and 304 ends the run at the
\* request, its only one, with a PluginError: no entry is created, the body
\* is not parsed, and the persisted etag, modified and last_entry stay as
\* they were.
C13_ErrorStatusFailsTheRun ==
    (pc \in {"parse", "bozo", "order", "loop", "save", "done"}
     /\ status \notin {0, 200, 304}) =>
        /\ pc = "done"
        /\ result.at = "get"
        /\ result.kind = "PluginError"
        /\ entries = <<>>
        /\ rss.entries = <<>>
        /\ simple_persistence = started

\* C14: If-None-Match and If-Modified-Since are sent only in a run where
\* config all_entries, task.config_modified and the nocache option are all
\* off, and then carry the etag and modified persisted when the run began;
\* in a run where one of the three is on the request has neither header,
\* whatever is persisted.
C14_ConditionalHeadersOnlyWhenIncremental ==
    pc # "idle" =>
        IF config.all_entries \/ task.config_modified \/ task.nocache
        THEN headers.If_None_Match = None /\ headers.If_Modified_Since = None
        ELSE /\ headers.If_None_Match =
                   (IF Truthy(started[url_hash].etag)
                    THEN started[url_hash].etag ELSE None)
             /\ headers.If_Modified_Since =
                   (IF Truthy(started[url_hash].modified)
                    THEN started[url_hash].modified ELSE None)

\* A run made with the nocache option while an etag is persisted: the
\* request went out without If-None-Match.
C14_Witness ==
    /\ pc = "parse"
    /\ status = 200
    /\ task.nocache
    /\ ~config.all_entries
    /\ ~task.config_modified
    /\ Truthy(started[url_hash].etag)
    /\ headers.If_None_Match = None

\* C15: when the parsed feed has at least one entry and an incremental run
\* gets to saving its last spot, it saves title + guid (guid '' when
\* missing) of the first entry of the ordered sequence and returns, also
\* when that entry has no title or no link and nothing was created.
C15_LastSpotSavedFromFirstEntry ==
    (pc = "done" /\ result.at = "save" /\ Incremental /\ rss.entries # <<>>) =>
        /\ result.kind = "entries"
        /\ simple_persistence[url_hash].last_entry =
              fingerprint(GetOrEmpty(Field(rss.entries[1], title_field(config))),
                          rss.entries[1])

\* The bozo check of this run has been made.
Classified ==
    \/ pc \in {"order", "loop", "save"}
    \/ pc = "done" /\ result.at \notin {"get", "parse"}

\* C16: for a bozo exception that is not a transport fault handed on by the
\* parser, the run fails at the bozo check only when the parser gave no
\* entry and the exception is a SAXParseException or an unclassified one;
\* with an ignorable notice, and with any exception when the parser gave at
\* least one entry, the run goes on to the loop with those entries.
C16_FailsOnlyWithoutEntries ==
    (Classified /\ rss.ex \notin {"BadStatusLine", "IOError"}) =>
        /\ (rss.entries = <<>> /\ rss.ex \in {"SAXParseException", "other"}) =>
              pc = "done" /\ result.at = "bozo" /\ result.kind = "PluginError"
        /\ (\/ rss.entries # <<>>
            \/ rss.ex \in {"none", "nobit", "NonXMLContentType",
                            "CharacterEncodingOverride"}) =>
              /\ ~(pc = "done" /\ result.at = "bozo")
              /\ Len(rss.entries) = Len(upstream.entries)

\* The non-empty hrefs of the single entry's enclosures.
EnclosureLinks ==
    {TheEntry.enclosures[i].href : i \in 1..Len(TheEntry.enclosures)} \ {None, <<>>}

\* The values of the entry fields the link setting names.
LinkFieldValues ==
    LET fields == IF config.link.kind = "auto" THEN <<"link", "guid">>
                  ELSE config.link.fields
    IN {Field(TheEntry, fields[i]) : i \in 1..Len(fields)} \ {None}

\* C17: with group_links on, the urls of the entry created for an rss entry
\* are its enclosure links followed by the values of the fields the link
\* setting names: no field value stands before an enclosure link.
C17_EnclosureLinksComeFirst ==
    (ScanOver /\ config.group_links /\ result.kind = "entries"
     /\ Len(upstream.entries) = 1 /\ Len(entries) = 1) =>
        \A i \in 1..Len(entries[1].urls) : \A j \in 1..Len(entries[1].urls) :
            (/\ entries[1].urls[i] \in EnclosureLinks \ LinkFieldValues
             /\ entries[1].urls[j] \in LinkFieldValues \ EnclosureLinks) => i < j

\* The single entry has a title and is not fanned out into one entry per
\* enclosure: it gives at most one entry.
SingleOutput ==
    /\ Len(upstream.entries) = 1
    /\ Truthy(Field(TheEntry, title_field(config)))
    /\ ~(Len(TheEntry.enclosures) > 1 /\ ~config.group_links)

\* The url link: auto is to find for the single entry.
AutoUrl ==
    IF Len(TheEntry.enclosures) = 1 /\ Truthy(TheEntry.enclosures[1].href)
    THEN TheEntry.enclosures[1].href
    ELSE IF Truthy(TheEntry.link) THEN TheEntry.link
    ELSE IF Truthy(TheEntry.guid) THEN TheEntry.guid
    ELSE None

\* C18: with link auto, the entry created for an rss entry has as url the
\* href of the enclosure when there is exactly one enclosure and its href is
\* non-empty, else the first non-empty of link and guid; when none is
\* non-empty no url is resolved and no entry is created.
C18_AutoPrefersSingleEnclosure ==
    (ScanOver /\ SingleOutput /\ config.link.kind = "auto"
     /\ result.kind = "entries") =>
        IF AutoUrl = None
        THEN entries = <<>>
        ELSE Len(entries) = 1 /\ entries[1].url = AutoUrl

\* An entry with a link and one enclosure with an href got the href as url.
C18_Witness ==
    /\ ScanOver
    /\ SingleOutput
    /\ config.link.kind = "auto"
    /\ result.kind = "entries"
    /\ TheEntry.link = <<"l">>
    /\ TheEntry.enclosures = <<[href |-> <<"h">>]>>
    /\ Len(entries) = 1
    /\ entries[1].url = <<"h">>

\* The non-empty values of the fields a link list names, in list order.
ListedValues ==
    SelectSeq([i \in 1..Len(config.link.fields) |->
                  Field(TheEntry, config.link.fields[i])],
              Truthy)

\* C19: with link given as a list of fields, the entry created for an rss
\* entry has as url the value of the first listed field that is non-empty,
\* and its urls begin with that url and hold the non-empty values of the
\* listed fields in list order, each once (they are exactly that list when
\* group_links is off); when no listed field is non-empty no entry is
\* created.
C19_LinkListGivesUrlAndUrls ==
    (ScanOver /\ SingleOutput /\ config.link.kind = "list"
     /\ result.kind = "entries") =>
        IF ListedValues = <<>>
        THEN entries = <<>>
        ELSE /\ Len(entries) = 1
             /\ entries[1].url = ListedValues[1]
             /\ entries[1].urls[1] = entries[1].url
             /\ Len(entries[1].urls) >= Len(WithoutRepeats(ListedValues))
             /\ SubSeq(entries[1].urls, 1, Len(WithoutRepeats(ListedValues)))
                   = WithoutRepeats(ListedValues)
             /\ ~config.group_links =>
                   entries[1].urls = WithoutRepeats(ListedValues)

\* link and guid hold the same value: it is the url and stands once in urls.
C19_Witness ==
    /\ ScanOver
    /\ SingleOutput
    /\ config.link.kind = "list"
    /\ ~config.group_links
    /\ result.kind = "entries"
    /\ TheEntry.link = <<"l">>
    /\ TheEntry.guid = <<"l">>
    /\ Len(entries) = 1
    /\ entries[1].url = <<"l">>
    /\ entries[1].urls = <<<<"l">>>>

\* C20: in a run with config all_entries, task.config_modified or the
\* nocache option on, the persisted last spot stops nothing: the loop takes
\* every entry of the feed and the run returns every entry that has a title
\* and a url, whatever last_entry is persisted.
C20_NoLastSpotWithAllEntries ==
    (ScanOver /\ all_entries) =>
        /\ result.kind = "entries"
        /\ index = Len(rss.entries)
        /\ ~task.no_entries_ok
        /\ [i \in 1..Len(entries) |-> entries[i].url] = ResolvableUrls(Len(rss.entries))

\* The request of this run was answered with 200.
Answered200 == status = 200 /\ pc # "get"

\* C21: in a run where config all_entries, task.config_modified
\* or the nocache option is on, a 200 response leaves the persisted etag
\* and modified unchanged.
C21_ValidatorsKeptWhenBypassed ==
    (Answered200 /\ all_entries) =>
        /\ simple_persistence[url_hash].etag = started[url_hash].etag
        /\ simple_persistence[url_hash].modified = started[url_hash].modified

\* C22: when a run that takes all entries returns, ignored counts the rss
\* entries that gave no entry for want of a title or a url (here: the single
\* rss entry, when nothing was created from it, also when it has several
\* enclosures and none has an href), and the warning about skipped entries
\* is given exactly when ignored > 0 and silent is off.
C22_IgnoredCountsEntriesWithoutOutput ==
    (ScanOver /\ result.kind = "entries" /\ all_entries
     /\ Len(upstream.entries) = 1) =>
        /\ ignored = (IF entries = <<>> THEN 1 ELSE 0)
        /\ result.warned = (ignored > 0 /\ ~config.silent)

\* The inputs of the task other than the one whose run is in progress.
OtherInputs == {input \in task_inputs : input.config.url # config.url}

C24_SavedLastSpotIsRecognised ==
    (/\ pc = "done"
     /\ result.at = "save"
     /\ result.kind = "entries"
     /\ rss.entries # <<>>
     /\ Truthy(Field(rss.entries[1], title_field(config)))) =>
        is_last_entry(AsParsed(rss.entries[1]), config,
                      simple_persistence[url_hash].last_entry)

\* A run that got the document with status 200 and ended without any entry,
\* though the document holds entries.
FruitlessRun ==
    /\ pc = "done"
    /\ status = 200
    /\ Emitted = <<>>
    /\ upstream.entries # <<>>

\* The document has been received again and goes to the parser.
DocumentReceived == pc = "parse"

\* C25: when the document does not change and the incremental runs are
\* repeated, a run that received it with status 200 and ended without
\* emitting is followed by a run that receives the document again, not by
\* 304 answers for ever.
C25_FruitlessRunIsRetried == FruitlessRun ~> DocumentReceived

====
